---- MODULE Spec2Model ----
(***************************************************************************)
(* Model of mylar/downloaders/jdownloader2.py: the JDownloader2 client.    *)
(* One action per public method (submit, query, status).  The daemon, the  *)
(* HTTP session and the ddl_info table are the environment: every action   *)
(* draws the transport outcome, the response body and the outcome of the   *)
(* upsert from bounded sets.                                               *)
(*                                                                         *)
(* Python / JSON values are tagged records, so that isinstance() is a test *)
(* of the tag: None, bool, number, string, list, dict.                     *)
(***************************************************************************)
EXTENDS Integers, Sequences, FiniteSets, TLC

VARIABLES base_url, destination_folder, store, sent, last, prev

vars == <<base_url, destination_folder, store, sent, last, prev>>

--------------------------------------------------------------------------
(* Bounds *)

\* total number of HTTP GETs the session may carry in one behaviour
MaxSent == 2

--------------------------------------------------------------------------
(* Python values *)

JNone == [t |-> "null"]
JBool(b) == [t |-> "bool", b |-> b]
JNum(n) == [t |-> "num", n |-> n]
JStr(s) == [t |-> "str", s |-> s]
JList(l) == [t |-> "list", l |-> l]
JDict(d) == [t |-> "dict", d |-> d]

EmptyDict == JDict(<<>>)
EmptyList == JList(<<>>)

\* a response body resp.json() cannot decode
BadBody == [t |-> "bad"]

IsDict(v) == v.t = "dict"
IsList(v) == v.t = "list"
IsNone(v) == v.t = "null"

\* Python truth value, as used by `x or y` and `if x` / `if not x`
Truthy(v) ==
    CASE v.t = "null" -> FALSE
      [] v.t = "bool" -> v.b
      [] v.t = "num"  -> v.n # 0
      [] v.t = "str"  -> v.s # ""
      [] v.t = "list" -> Len(v.l) > 0
      [] v.t = "dict" -> DOMAIN v.d # {}

\* a or b
PyOr(a, b) == IF Truthy(a) THEN a ELSE b

\* dict.get(key, default)
DictGet(v, key, default) == IF key \in DOMAIN v.d THEN v.d[key] ELSE default

\* str(x) for the values a job id can take in the bounded responses
PyStr(v) ==
    CASE v.t = "str"  -> v.s
      [] v.t = "num"  -> ToString(v.n)
      [] v.t = "bool" -> IF v.b THEN "True" ELSE "False"
      [] v.t = "null" -> "None"
      [] v.t = "list" /\ Len(v.l) = 0 -> "[]"
      [] v.t = "dict" /\ DOMAIN v.d = {} -> "{}"

\* outcome of a method call: a returned value or an exception reaching the caller
Return(v) == [kind |-> "return", value |-> v]
Raise(e) == [kind |-> "raise", exc |-> e]

--------------------------------------------------------------------------
(* Client *)

LINKGRABBER_ENDPOINT == "linkgrabberv2/addLinks"
DOWNLOADS_ENDPOINT == "downloadsV2/queryLinks"

\* _url, for the two endpoints (neither starts with '/')
Url(base, endpoint) == base \o "/" \o endpoint

\* the exception caught at `except Exception as err` around session.get /
\* raise_for_status: "neterr" is session.get raising, "httperr" is
\* raise_for_status raising, "ok" is neither
TransportError(transport) ==
    IF transport = "neterr" THEN "ConnectionError" ELSE "HTTPError"

\* the except branch forgets `payload = {}` and leaves None
ParsePayload_NoneOnBadBody(body) ==
    IF body.t = "bad" THEN JNone ELSE PyOr(body, JDict(<<>>))

\* payload = resp.json() or {}, with the except branch for undecodable bodies
ParsePayload(body) ==
    IF body.t = "bad" THEN EmptyDict ELSE PyOr(body, EmptyDict)

(* submit *)

\* the query object of submit; destinationFolder only when the folder is set
SubmitQuery(link, package_name, autostart, dest) ==
    LET query == [assignJobID |-> JBool(TRUE), autostart |-> JBool(autostart),
                  links |-> JStr(link), packageName |-> JStr(package_name)]
    IN  IF Truthy(dest) THEN JDict(query @@ [destinationFolder |-> dest])
                        ELSE JDict(query)

\* the request is sent again when the first attempt fails
SubmitRequests_RetryOnFailure(base, query, transport) ==
    LET request == [url |-> Url(base, LINKGRABBER_ENDPOINT), param |-> "query",
                    query |-> query]
    IN  IF transport = "ok" THEN <<request>> ELSE <<request, request>>

\* the GETs submit issues: session.get is called once, outside any loop
SubmitRequests(base, query, transport) ==
    << [url |-> Url(base, LINKGRABBER_ENDPOINT), param |-> "query", query |-> query] >>

\* the except branch reports success
SubmitFailed_ReportsSuccess(err) == [status |-> TRUE, jobid |-> JNone, error |-> err]

\* the value returned from the except branch of the request
SubmitFailed(err) == [status |-> FALSE, jobid |-> JNone, error |-> err]

\* job_id after the isinstance(payload, dict) block
SubmitJobId(payload) ==
    IF IsDict(payload)
    THEN LET data == DictGet(payload, "data", payload)
         IN  IF IsDict(data)
             THEN PyOr(DictGet(data, "id", JNone), DictGet(data, "jobID", JNone))
             ELSE JNone
    ELSE JNone

\* '%Y-%m-%d %H:%M' keeps the minute and drops the seconds
SecondsPerMinute == 60
Strftime(now) == now \div SecondsPerMinute

\* the `job_id is None` test is missing: the job id is stored whenever a
\* record id was given
SubmitPersist_NoJobIdCheck(job_id, record_id, db, now) ==
    IF ~Truthy(record_id)
    THEN <<>>
    ELSE LET connect == [call |-> "DBConnection"]
             upsert == [call |-> "upsert", table |-> "ddl_info",
                        values |-> [jd2_job_id |-> PyStr(job_id),
                                    status |-> "JD2-Submitted",
                                    updated_date |-> Strftime(now)],
                        key |-> [id |-> record_id]]
         IN  IF db = "connect_raises" THEN <<connect>> ELSE <<connect, upsert>>

\* the calls made on mylar.db inside the try block, in order; db is what the
\* record store does: "ok", "connect_raises" (DBConnection() raises) or
\* "upsert_raises" (upsert raises)
SubmitPersist(job_id, record_id, db, now) ==
    IF IsNone(job_id) \/ ~Truthy(record_id)
    THEN <<>>
    ELSE LET connect == [call |-> "DBConnection"]
             upsert == [call |-> "upsert", table |-> "ddl_info",
                        values |-> [jd2_job_id |-> PyStr(job_id),
                                    status |-> "JD2-Submitted",
                                    updated_date |-> Strftime(now)],
                        key |-> [id |-> record_id]]
         IN  IF db = "connect_raises" THEN <<connect>> ELSE <<connect, upsert>>

\* whether the try block around the record store ended in its except branch
PersistRaised(dbcalls, db) == dbcalls # <<>> /\ db # "ok"

\* the dict returned on the last line of submit
SubmitOk(job_id, payload) ==
    [status |-> TRUE,
     jobid |-> IF IsNone(job_id) THEN JNone ELSE JStr(PyStr(job_id)),
     payload |-> payload]

\* a failure of the record store is reported as a failed submission
SubmitFinish_FailsOnPersistError(job_id, payload, persistRaised) ==
    IF persistRaised THEN Return(SubmitFailed("PersistenceError"))
                     ELSE Return(SubmitOk(job_id, payload))

\* the end of submit: `except Exception` around the record store logs a
\* warning and falls through to the same return statement
SubmitFinish(job_id, payload, persistRaised) ==
    IF persistRaised THEN Return(SubmitOk(job_id, payload))
                     ELSE Return(SubmitOk(job_id, payload))

\* outcome of submit for a transport outcome and a response body
SubmitResult(record_id, transport, body, db, now) ==
    IF transport # "ok"
    THEN Return(SubmitFailed(TransportError(transport)))
    ELSE LET payload == ParsePayload(body)
             job_id == SubmitJobId(payload)
             dbcalls == SubmitPersist(job_id, record_id, db, now)
         IN  SubmitFinish(job_id, payload, PersistRaised(dbcalls, db))

\* the record store calls of a whole submit call
SubmitDbCalls(record_id, transport, body, db, now) ==
    IF transport # "ok"
    THEN <<>>
    ELSE SubmitPersist(SubmitJobId(ParsePayload(body)), record_id, db, now)

(* query *)

QueryQuery(job_ids) ==
    JDict([jobUUID |-> JBool(TRUE), jobUUIDs |-> job_ids, status |-> JBool(TRUE),
           maxResults |-> JNum(1000), startAt |-> JNum(0)])

\* the early return for an empty id list is missing
QueryRequests_NoEmptyCheck(base, job_ids, transport) ==
    << [url |-> Url(base, DOWNLOADS_ENDPOINT), param |-> "queryParams",
        query |-> QueryQuery(job_ids)] >>

\* the GETs query issues: none after the early return for `not job_ids`
QueryRequests(base, job_ids, transport) ==
    IF ~Truthy(job_ids)
    THEN <<>>
    ELSE << [url |-> Url(base, DOWNLOADS_ENDPOINT), param |-> "queryParams",
             query |-> QueryQuery(job_ids)] >>

\* the last two lines of query: payload.get is an attribute only of a dict,
\* so any other payload raises AttributeError before the default is used
QueryData(payload) ==
    IF ~IsDict(payload)
    THEN Raise("AttributeError")
    ELSE LET data == DictGet(payload, "data",
                             IF IsList(payload) THEN payload ELSE EmptyList)
         IN  Return(IF IsList(data) THEN data ELSE EmptyList)

QueryResult(job_ids, transport, body) ==
    IF ~Truthy(job_ids) THEN Return(EmptyList)
    ELSE IF transport # "ok" THEN Return(EmptyList)
    ELSE QueryData(ParsePayload(body))

(* status *)

NotFound == [found |-> FALSE, status |-> JNone, data |-> JNone]

\* the `not packages` test is missing: an empty answer counts as found
StatusOf_NoEmptyCheck(packages) ==
    LET package == IF Truthy(packages) THEN packages.l[1] ELSE JNone
    IN  [found |-> TRUE,
         status |-> IF IsDict(package) THEN DictGet(package, "status", JNone)
                                       ELSE JNone,
         data |-> package]

\* status after query returned packages
StatusOf(packages) ==
    IF ~Truthy(packages)
    THEN NotFound
    ELSE LET package == packages.l[1]
         IN  [found |-> TRUE,
              status |-> IF IsDict(package) THEN DictGet(package, "status", JNone)
                                            ELSE JNone,
              data |-> package]

\* the GETs status issues, through its one call of query
StatusRequests(base, job_id, transport) ==
    IF IsNone(job_id) THEN <<>>
    ELSE QueryRequests(base, JList(<<job_id>>), transport)

\* an exception out of query is not caught in status
StatusResult(job_id, transport, body) ==
    IF IsNone(job_id) THEN Return(NotFound)
    ELSE LET q == QueryResult(JList(<<job_id>>), transport, body)
         IN  IF q.kind = "raise" THEN q ELSE Return(StatusOf(q.value))

(* record store *)

NoRow == [status |-> "no row"]

\* the ddl_info table after the calls of one submit: an upsert that does not
\* raise sets the three columns of the row with the given id
DbApply(st, dbcalls, db) ==
    IF db = "ok" /\ Len(dbcalls) = 2
    THEN [st EXCEPT ![dbcalls[2].key.id.s] = dbcalls[2].values]
    ELSE st

--------------------------------------------------------------------------
(* Environment: arguments, transport outcomes, response bodies *)

Links == {"https://getcomics.org/dl/1"}
PackageNames == {"Comic 001"}
Autostarts == {TRUE}
RecordIds == {"r1"}
\* record_id: None, the empty string, or an id of the table
RecordIdArgs == {JNone, JStr("")} \cup {JStr(r) : r \in RecordIds}
Transports == {"neterr", "httperr", "ok"}
DbOutcomes == {"ok", "connect_raises", "upsert_raises"}
\* seconds on the wall clock at the time of the upsert: two instants of the
\* same minute
Clock == {60, 119}
JobIds == {"j1", "j2"}

Absent == [t |-> "absent"]
\* the body of a response that is never read
Unread == [t |-> "unread"]

\* the dict holding the keys whose choice is not Absent
DictOf(choice) ==
    JDict([k \in {k \in DOMAIN choice : choice[k].t # "absent"} |-> choice[k]])

IdChoices == {Absent, JNum(0), JNum(42)}
JobIDChoices == {Absent, JStr("b")}
IdDicts == {DictOf([id |-> i, jobID |-> j]) : i \in IdChoices, j \in JobIDChoices}
DataChoices == {Absent, JNone, JList(<<JNum(1)>>)} \cup IdDicts

Scalars == {JNone, JNum(7), JStr("ok")}

SubmitBodies ==
    {BadBody} \cup Scalars \cup {JList(<<JNum(1)>>)}
    \cup {DictOf([data |-> d, id |-> i, jobID |-> j]) :
              d \in DataChoices, i \in IdChoices, j \in JobIDChoices}

\* records of a queryLinks answer: dicts naming their job, with or without
\* a status, and a record that is not a dict
Packages ==
    {JDict([jobUUID |-> JStr("j1"), status |-> JStr("Finished")]),
     JDict([jobUUID |-> JStr("j2"), status |-> JStr("Running")]),
     JDict([jobUUID |-> JStr("j2")]),
     JStr("x")}

\* the answers of the daemon: no record, one record, two records
PackageLists ==
    {EmptyList} \cup {JList(<<p>>) : p \in Packages}
    \cup {JList(<<p, q>>) : p \in Packages, q \in Packages}

QueryBodies ==
    {BadBody} \cup Scalars \cup PackageLists
    \cup {JDict([data |-> l]) : l \in PackageLists}
    \cup {JDict([data |-> JStr("x")]), JDict([data |-> JNone]),
          JDict([id |-> JNum(42)]), JDict([data |-> JDict([status |-> JStr("Finished")])])}

JobIdLists == {JList(<<>>), JList(<<JStr("j1")>>), JList(<<JStr("j1"), JStr("j2")>>)}
JobIdArgs == {JNone} \cup {JStr(j) : j \in JobIds}

--------------------------------------------------------------------------
(* State *)

NoCall == [op |-> "none"]

Init ==
    /\ base_url = "http://127.0.0.1:3128"
    /\ destination_folder \in {JNone, JStr("/downloads")}
    /\ store = [r \in RecordIds |-> NoRow]
    /\ sent = 0
    /\ last = NoCall
    /\ prev = NoCall

\* a call with the arguments and the daemon response of the call before it
SameCall(call, op, args, transport, body) ==
    /\ call.op = op
    /\ call.args = args
    /\ call.transport = transport
    /\ call.body = body

Submit(link, package_name, autostart, record_id, transport, body, db, now) ==
    LET args == [link |-> link, package_name |-> package_name,
                 autostart |-> autostart, record_id |-> record_id]
        query == SubmitQuery(link, package_name, autostart, destination_folder)
        requests == SubmitRequests(base_url, query, transport)
        dbcalls == SubmitDbCalls(record_id, transport, body, db, now)
    IN  /\ sent + Len(requests) <= MaxSent
        /\ sent' = sent + Len(requests)
        /\ store' = DbApply(store, dbcalls, db)
        /\ last' = [op |-> "submit", args |-> args, transport |-> transport,
                    body |-> body, db |-> db, requests |-> requests,
                    dbcalls |-> dbcalls,
                    result |-> SubmitResult(record_id, transport, body, db, now)]
        /\ prev' = IF SameCall(last, "submit", args, transport, body)
                   THEN last ELSE NoCall
        /\ UNCHANGED <<base_url, destination_folder>>

Query(job_ids, transport, body) ==
    LET requests == QueryRequests(base_url, job_ids, transport)
    IN  /\ sent + Len(requests) <= MaxSent
        /\ sent' = sent + Len(requests)
        /\ last' = [op |-> "query", args |-> [job_ids |-> job_ids],
                    transport |-> transport, body |-> body, db |-> "unused",
                    requests |-> requests, dbcalls |-> <<>>,
                    result |-> QueryResult(job_ids, transport, body)]
        /\ prev' = NoCall
        /\ UNCHANGED <<base_url, destination_folder, store>>

Status(job_id, transport, body) ==
    LET requests == StatusRequests(base_url, job_id, transport)
    IN  /\ sent + Len(requests) <= MaxSent
        /\ sent' = sent + Len(requests)
        /\ last' = [op |-> "status", args |-> [job_id |-> job_id],
                    transport |-> transport, body |-> body, db |-> "unused",
                    requests |-> requests, dbcalls |-> <<>>,
                    result |-> StatusResult(job_id, transport, body)]
        /\ prev' = NoCall
        /\ UNCHANGED <<base_url, destination_folder, store>>

\* the bodies the environment can answer with: none when no request is
\* made or the request fails
BodiesFor(transport, bodies) == IF transport = "ok" THEN bodies ELSE {Unread}
TransportsFor(sends) == IF sends THEN Transports ELSE {"unused"}

\* the record store and the clock are consulted only by a submit that
\* reaches the try block around the upsert
DbOutcomesFor(record_id, transport, body) ==
    IF SubmitDbCalls(record_id, transport, body, "ok", 0) # <<>>
    THEN DbOutcomes ELSE {"unused"}
ClockFor(db) == IF db \in {"ok", "upsert_raises"} THEN Clock ELSE {0}

DoSubmit ==
    \E link \in Links, package_name \in PackageNames, autostart \in Autostarts,
       record_id \in RecordIdArgs, transport \in Transports :
        \E body \in BodiesFor(transport, SubmitBodies) :
            \E db \in DbOutcomesFor(record_id, transport, body) :
                \E now \in ClockFor(db) :
                    Submit(link, package_name, autostart, record_id, transport,
                           body, db, now)

DoQuery ==
    \E job_ids \in JobIdLists :
        \E transport \in TransportsFor(Truthy(job_ids)) :
            \E body \in BodiesFor(transport, QueryBodies) :
                Query(job_ids, transport, body)

DoStatus ==
    \E job_id \in JobIdArgs :
        \E transport \in TransportsFor(~IsNone(job_id)) :
            \E body \in BodiesFor(transport, QueryBodies) :
                Status(job_id, transport, body)

Next == DoSubmit \/ DoQuery \/ DoStatus

Spec == Init /\ [][Next]_vars

--------------------------------------------------------------------------
(* Properties *)

\* C1: a query that got a response to a non-empty id list returns
\* payload.data when payload is a mapping whose data is a sequence, the
\* payload itself when the parsed payload is a sequence, and the empty
\* sequence in every other case.
C1_QueryReturnsRecords ==
    (last.op = "query" /\ Truthy(last.args.job_ids) /\ last.transport = "ok")
    => LET parsed == IF last.body.t = "bad" THEN EmptyDict ELSE last.body
           expected ==
               IF IsDict(parsed) /\ "data" \in DOMAIN parsed.d /\ IsList(parsed.d["data"])
               THEN parsed.d["data"]
               ELSE IF IsList(parsed) THEN parsed ELSE EmptyList
       IN  last.result = Return(expected)

\* C2: the job id submit returns comes from payload.data.id or else
\* payload.data.jobID when data is a mapping, and from the top-level id or
\* else jobID when data is absent or is present but not a mapping.
C2_JobIdFallsBackToTopLevel ==
    (last.op = "submit" /\ last.transport = "ok")
    => LET payload == ParsePayload(last.body)
           from == IF IsDict(payload) /\ "data" \in DOMAIN payload.d
                      /\ IsDict(payload.d["data"])
                   THEN payload.d["data"] ELSE payload
           job_id == IF IsDict(payload)
                     THEN PyOr(DictGet(from, "id", JNone), DictGet(from, "jobID", JNone))
                     ELSE JNone
       IN  /\ last.result.kind = "return"
           /\ last.result.value.jobid =
                  (IF IsNone(job_id) THEN JNone ELSE JStr(PyStr(job_id)))

\* C3: no call of submit, query or status raises to the caller, whatever the
\* transport outcome, the response body and the record store do.
C3_NoCallRaises ==
    last.op \in {"submit", "query", "status"} => last.result.kind = "return"

\* C4 as stated: status(job_id) returns found=false whenever the records
\* query([job_id]) obtains hold no record for job_id, whatever else they hold.
C4_NotFoundWhenNoRecordForJob ==
    (last.op = "status" /\ ~IsNone(last.args.job_id))
    => LET q == QueryResult(JList(<<last.args.job_id>>), last.transport, last.body)
           isFor(package) == /\ IsDict(package)
                             /\ "jobUUID" \in DOMAIN package.d
                             /\ package.d["jobUUID"] = last.args.job_id
       IN  (q.kind = "return" /\ \A i \in 1..Len(q.value.l) : ~isFor(q.value.l[i]))
           => (last.result.kind = "return" /\ last.result.value.found = FALSE)

\* C4 amended: status(job_id) returns found=false whenever the sequence
\* query([job_id]) obtains is empty; when it is not empty status returns
\* found=true with the first record as data, whether or not that record is
\* for job_id.
C4_NotFoundIffNoRecords ==
    (last.op = "status" /\ ~IsNone(last.args.job_id))
    => LET q == QueryResult(JList(<<last.args.job_id>>), last.transport, last.body)
       IN  q.kind = "return"
           => /\ last.result.kind = "return"
              /\ last.result.value.found = (Len(q.value.l) > 0)
              /\ Len(q.value.l) = 0 => last.result.value = NotFound
              /\ Len(q.value.l) > 0 => last.result.value.data = q.value.l[1]

\* a status call that got an empty list of records from the daemon
C4_Witness_Empty ==
    /\ last.op = "status" /\ last.transport = "ok"
    /\ last.body = JDict([data |-> EmptyList])
    /\ last.result = Return(NotFound)

\* C5 as stated: every submit that returns success=true and was given a
\* record id performs exactly one upsert, keyed by that record id, whose job
\* id equals the returned jobid; every other submit performs none.
C5_OneUpsertPerSuccess ==
    last.op = "submit"
    => LET isUpsert(c) == c.call = "upsert"
           upserts == SelectSeq(last.dbcalls, isUpsert)
       IN  IF last.result.value.status /\ ~IsNone(last.args.record_id)
           THEN /\ Len(upserts) = 1
                /\ upserts[1].key.id = last.args.record_id
                /\ JStr(upserts[1].values.jd2_job_id) = last.result.value.jobid
           ELSE Len(upserts) = 0

\* C5 amended: every submit that returns success=true with a job id present
\* and was given a non-empty record id makes exactly one attempt on the
\* record store: it opens one connection and, unless opening it raises,
\* performs exactly one upsert, keyed by that record id, whose job id equals
\* the returned jobid; a submit without a non-empty record id, returning
\* success=false or returning jobid absent makes no record store call.
C5_OneUpsertPerJobId ==
    last.op = "submit"
    => LET isUpsert(c) == c.call = "upsert"
           isConnect(c) == c.call = "DBConnection"
           upserts == SelectSeq(last.dbcalls, isUpsert)
           connects == SelectSeq(last.dbcalls, isConnect)
       IN  IF /\ last.result.value.status
              /\ ~IsNone(last.result.value.jobid)
              /\ Truthy(last.args.record_id)
           THEN /\ Len(connects) = 1
                /\ Len(upserts) = (IF last.db = "connect_raises" THEN 0 ELSE 1)
                /\ Len(upserts) = 1 =>
                      /\ upserts[1].key.id = last.args.record_id
                      /\ JStr(upserts[1].values.jd2_job_id) = last.result.value.jobid
           ELSE last.dbcalls = <<>>

\* a submit that stored the job id 42 of the response as the string "42"
C5_Witness_Upsert ==
    /\ last.op = "submit" /\ last.db = "ok"
    /\ last.args.record_id = JStr("r1")
    /\ last.body = JDict([data |-> JDict([id |-> JNum(42)])])
    /\ last.result.value.jobid = JStr("42")
    /\ Len(last.dbcalls) = 2
    /\ store["r1"] # NoRow /\ store["r1"].jd2_job_id = "42"

\* C6: for the same arguments and the same daemon response, submit returns
\* the same success flag, jobid and payload whether the record store write
\* succeeds or raises.
C6_PersistFailureKeepsResult ==
    (/\ last.op = "submit" /\ prev.op = "submit"
     /\ SameCall(prev, "submit", last.args, last.transport, last.body))
    => /\ last.result.kind = "return" /\ prev.result.kind = "return"
       /\ last.result.value = prev.result.value

\* the same submission twice, the record store accepting the first write and
\* raising on the second
C6_Witness_OkThenRaises ==
    /\ last.op = "submit" /\ prev.op = "submit"
    /\ prev.db = "ok" /\ last.db = "upsert_raises"
    /\ Len(last.dbcalls) = 2
    /\ last.result.value.status

C8_UnparsableBody ==
    [][(last'.op = "submit" /\ last'.transport = "ok" /\ last'.body = BadBody)
       => /\ last'.result =
                Return([status |-> TRUE, jobid |-> JNone, payload |-> EmptyDict])
          /\ last'.dbcalls = <<>>
          /\ store' = store]_vars

\* a submit with a record id that got an undecodable body
C8_Witness_BadBody ==
    /\ last.op = "submit" /\ last.transport = "ok" /\ last.body = BadBody
    /\ last.args.record_id = JStr("r1")
    /\ last.result.value.status

\* C9: query with an empty id list and status with an absent job id send no
\* request: query returns the empty sequence, status returns found=false
\* with status and data absent, and the session carries no new GET.
C9_NoRequestWithoutIds ==
    [][/\ (last'.op = "query" /\ ~Truthy(last'.args.job_ids))
          => /\ last'.result = Return(EmptyList)
             /\ last'.requests = <<>>
             /\ sent' = sent
       /\ (last'.op = "status" /\ IsNone(last'.args.job_id))
          => /\ last'.result = Return(NotFound)
             /\ last'.requests = <<>>
             /\ sent' = sent]_vars

\* a query with no ids made after the session has carried a request
C9_Witness_EmptyQuery ==
    /\ last.op = "query" /\ last.args.job_ids = EmptyList
    /\ sent > 0

\* C10: every single call of submit, query or status sends at most one GET,
\* also when the GET fails or the response cannot be used.
C10_AtMostOneGetPerCall ==
    [][/\ sent' <= sent + 1
       /\ Len(last'.requests) <= 1]_vars

\* a second call whose only GET failed
C10_Witness_FailedGet ==
    /\ last.op \in {"submit", "query", "status"}
    /\ last.transport \in {"neterr", "httperr"}
    /\ Len(last.requests) = 1
    /\ sent = 2

====
